---------------------------- MODULE Spec2Model ----------------------------
(***************************************************************************)
(* A model of advanced_md_analysis.py: the .xvg reader (read_xvg) and the  *)
(* two summarizers built on it (plot_with_stats, create_box_plots).        *)
(*                                                                         *)
(* Text is modelled at the level the code works on it: a line is a         *)
(* sequence of one-character strings, a file is a sequence of lines.       *)
(* Numbers are the integers the decimal tokens denote; a mean is kept as   *)
(* the exact fraction [num, den] that np.mean divides out.                 *)
(*                                                                         *)
(* Two specifications:                                                     *)
(*   SpecRead  read_xvg run line by line over one file                     *)
(*   Spec      plot_with_stats / create_box_plots over a files_dict whose  *)
(*             paths exist or not on a small file system                   *)
(***************************************************************************)
EXTENDS Integers, Sequences, FiniteSets, TLC

VARIABLES
    \* ---- read_xvg (SpecRead)
    lines,          \* the file's lines, as "for line in f" yields them
    pos,            \* how many of them the loop has consumed
    data_lines,     \* read_xvg's data_lines
    metadata,       \* read_xvg's metadata dict
    ret,            \* what read_xvg returned (or the exception np.array raised)
    rpc,            \* "idle" | "loop" | "done" | "raised"
    \* ---- plot_with_stats / create_box_plots (Spec)
    fs,             \* the file system: condition key -> [exists, content] of its path
    files_dict,     \* the caller's mapping, as its keys in insertion order
    convert_factor,
    time_ns,
    fn,             \* which function runs: "plot_with_stats" | "create_box_plots" | "none"
    k,              \* how many items of files_dict the for loop has consumed
    opened,         \* the keys whose file read_xvg was called on, in order
    all_means,      \* plot_with_stats: [(LABELS[key], mean_y)]
    data_list,      \* create_box_plots: the equilibrated windows
    labels_list,
    colors_list,
    ttest,          \* <<>> or <<[a |-> first argument, b |-> second argument]>> of stats.ttest_ind
    drawn,          \* what the function drew after the loop: "none" | "textbox" | "boxplot"
    pc              \* "idle" | "loop" | "done" | an exception's name

rvars == <<lines, pos, data_lines, metadata, ret, rpc>>
svars == <<fs, files_dict, convert_factor, time_ns, fn, k, opened, all_means,
           data_list, labels_list, colors_list, ttest, drawn, pc>>
vars == <<rvars, svars>>

-----------------------------------------------------------------------------
(* Bounds of the model *)

\* SpecRead: a file has at most this many lines.
MaxLines == 3
\* Spec: the generated series have 1..MaxRows rows.
MaxRows == 3

-----------------------------------------------------------------------------
(* str: the methods read_xvg calls *)

Whitespace == {" ", "\t", "\n"}
Digits == <<"0", "1", "2", "3", "4", "5", "6", "7", "8", "9">>
DigitSet == {Digits[d] : d \in 1..10}

\* str.lower(), one character (the upper-case letters the files use)
LowerChar(c) ==
    CASE c = "T" -> "t" [] c = "I" -> "i" [] c = "L" -> "l" [] c = "E" -> "e"
      [] c = "X" -> "x" [] c = "A" -> "a" [] c = "S" -> "s" [] c = "Y" -> "y"
      [] c = "B" -> "b" [] OTHER -> c

\* str.lower()
Lower(s) == [j \in 1..Len(s) |-> LowerChar(s[j])]

\* str.strip()
Strip(s) ==
    LET keep == {j \in 1..Len(s) : s[j] \notin Whitespace}
    IN  IF keep = {} THEN <<>>
        ELSE LET lo == CHOOSE j \in keep : \A m \in keep : j <= m
                 hi == CHOOSE j \in keep : \A m \in keep : j >= m
             IN  SubSeq(s, lo, hi)

\* str.startswith(c), c one character
StartsWith(s, c) == Len(s) >= 1 /\ s[1] = c

\* "w in s"
Contains(s, w) ==
    \E j \in 0..(Len(s) - Len(w)) : SubSeq(s, j + 1, j + Len(w)) = w

\* str.split(c): the pieces between the occurrences of c, empty ones kept
RECURSIVE SplitOn(_, _)
SplitOn(s, c) ==
    LET at == {j \in 1..Len(s) : s[j] = c}
    IN  IF at = {} THEN <<s>>
        ELSE LET p == CHOOSE j \in at : \A m \in at : j <= m
             IN  <<SubSeq(s, 1, p - 1)>> \o SplitOn(SubSeq(s, p + 1, Len(s)), c)

\* str.split(): the maximal runs of non-whitespace
RECURSIVE Split(_)
Split(s) ==
    LET t == Strip(s)
        ws == {j \in 1..Len(t) : t[j] \in Whitespace}
    IN  IF t = <<>> THEN <<>>
        ELSE IF ws = {} THEN <<t>>
        ELSE LET p == CHOOSE j \in ws : \A m \in ws : j <= m
             IN  <<SubSeq(t, 1, p - 1)>> \o Split(SubSeq(t, p + 1, Len(t)))

(* float(x) on a token.  The tokens of the data lines used here are made of
   digits, a sign and letters that spell no inf/nan/exponent, so float() is
   modelled on the form [+-]digits: anything else raises ValueError. *)
Unsigned(tok) ==
    IF Len(tok) >= 1 /\ tok[1] \in {"+", "-"} THEN SubSeq(tok, 2, Len(tok)) ELSE tok

FloatOk(tok) ==
    LET u == Unsigned(tok)
    IN  u # <<>> /\ \A j \in 1..Len(u) : u[j] \in DigitSet

DigitValue(c) == (CHOOSE d \in 1..10 : Digits[d] = c) - 1

RECURSIVE DigitsValue(_)
DigitsValue(ds) ==
    IF ds = <<>> THEN 0
    ELSE 10 * DigitsValue(SubSeq(ds, 1, Len(ds) - 1)) + DigitValue(ds[Len(ds)])

Float(tok) ==
    IF tok[1] = "-" THEN 0 - DigitsValue(Unsigned(tok)) ELSE DigitsValue(Unsigned(tok))

-----------------------------------------------------------------------------
(* read_xvg *)

W_title == <<"t", "i", "t", "l", "e">>
W_xaxis == <<"x", "a", "x", "i", "s">>
W_yaxis == <<"y", "a", "x", "i", "s">>
W_label == <<"l", "a", "b", "e", "l">>

EmptyMetadata == [title |-> <<>>, xlabel |-> <<>>, ylabel |-> <<>>]

\* try: metadata[field] = line.split('"')[1] / except: pass
SetQuoted(md, field, line) ==
    LET parts == SplitOn(line, "\"")
    IN  IF Len(parts) >= 2 THEN [md EXCEPT ![field] = parts[2]] ELSE md

\* the if/elif chain of an annotation line (line is stripped and starts with '@')
Annotate(md, line) ==
    LET low == Lower(line)
    IN  IF Contains(low, W_title) THEN SetQuoted(md, "title", line)
        ELSE IF Contains(low, W_xaxis) /\ Contains(low, W_label)
             THEN SetQuoted(md, "xlabel", line)
        ELSE IF Contains(low, W_yaxis) /\ Contains(low, W_label)
             THEN SetQuoted(md, "ylabel", line)
        ELSE md

\* which branch of the loop body a raw line takes
LineKind(raw) ==
    LET line == Strip(raw)
        toks == Split(line)
    IN  IF line = <<>> \/ StartsWith(line, "#") THEN "skip"
        ELSE IF StartsWith(line, "@") THEN "annotation"
        ELSE IF \A j \in 1..Len(toks) : FloatOk(toks[j]) THEN "data"
        ELSE "bad"

\* values = [float(x) for x in line.split()]
ParseRow(raw) ==
    LET toks == Split(Strip(raw)) IN [j \in 1..Len(toks) |-> Float(toks[j])]

\* a reader that puts each new row first (data_lines.insert(0, values))
AppendRow_front(dl, row) == <<row>> \o dl

\* data_lines.append(values)
AppendRow(dl, row) == Append(dl, row)

\* one iteration of "for line in f" on the state [data_lines, metadata]
ReadStep(st, raw) ==
    LET kind == LineKind(raw)
    IN  CASE kind = "skip" -> st
          [] kind = "annotation" ->
                [st EXCEPT !.metadata = Annotate(st.metadata, Strip(raw))]
          [] kind = "data" ->
                [st EXCEPT !.data_lines = AppendRow(st.data_lines, ParseRow(raw))]
          [] OTHER -> st

\* the whole loop
RECURSIVE ReadLoop(_, _)
ReadLoop(st, ls) ==
    IF ls = <<>> THEN st ELSE ReadLoop(ReadStep(st, Head(ls)), Tail(ls))

Homogeneous(dl) == \A a, b \in 1..Len(dl) : Len(dl[a]) = Len(dl[b])

(* np.array(data_lines): a 2-D float array when the rows have one length, the
   1-D empty array for no rows.  For rows of different lengths numpy >= 1.24
   raises ValueError (inhomogeneous shape) and older numpy builds a 1-D
   object array of lists: both outcomes are kept. *)
NpArray(dl) ==
    IF dl = <<>> THEN {[kind |-> "ndarray", ndim |-> 1, rows |-> <<>>]}
    ELSE IF Homogeneous(dl) THEN {[kind |-> "ndarray", ndim |-> 2, rows |-> dl]}
    ELSE {[kind |-> "ValueError", ndim |-> 0, rows |-> <<>>],
          [kind |-> "ndarray", ndim |-> 1, rows |-> dl]}

NoReturn == [kind |-> "none", ndim |-> 0, rows |-> <<>>]

-----------------------------------------------------------------------------
(* The lines the files of SpecRead are made of *)

\* ' \t\n'
L_space ==
    <<" ", "\t", "\n">>
\* ' #1 2'
L_icomment ==
    <<" ", "#", "1", " ", "2">>
\* '@ title "ab"'
L_title ==
    <<"@", " ", "t", "i", "t", "l", "e", " ", "\"", "a", "b", "\"">>
\* '@ title "ab'
L_title_open ==
    <<"@", " ", "t", "i", "t", "l", "e", " ", "\"", "a", "b">>
\* '@ title ab'
L_title_bare ==
    <<"@", " ", "t", "i", "t", "l", "e", " ", "a", "b">>
\* '@ XAXIS Label "ns" "x"'
L_xlabel_two ==
    <<"@", " ", "X", "A", "X", "I", "S", " ", "L", "a", "b", "e", "l", " ", "\"", "n", "s", "\"", " ", "\"", "x", "\"">>
\* '@ xaxis label "title"'
L_xlabel_t ==
    <<"@", " ", "x", "a", "x", "i", "s", " ", "l", "a", "b", "e", "l", " ", "\"", "t", "i", "t", "l", "e", "\"">>
\* '@ yaxis label "nm"'
L_ylabel ==
    <<"@", " ", "y", "a", "x", "i", "s", " ", "l", "a", "b", "e", "l", " ", "\"", "n", "m", "\"">>
\* '1 2'
L_row12 ==
    <<"1", " ", "2">>
\* ' -3\t+04 \n'
L_row34 ==
    <<" ", "-", "3", "\t", "+", "0", "4", " ", "\n">>
\* '7 x'
L_rowbad ==
    <<"7", " ", "x">>
\* '7 8 9'
L_row3 ==
    <<"7", " ", "8", " ", "9">>

LineLib ==
    {L_space, L_icomment, L_title,
     L_title_open, L_title_bare, L_xlabel_two, L_xlabel_t, L_ylabel,
     L_row12, L_row34, L_rowbad, L_row3}

ReadFiles == UNION {[1..n -> LineLib] : n \in 0..MaxLines}

-----------------------------------------------------------------------------
(* SpecRead: read_xvg, one line per step *)

SumIdle ==
    /\ fs = <<>> /\ files_dict = <<>> /\ convert_factor = 1 /\ time_ns = TRUE
    /\ fn = "none" /\ k = 0 /\ opened = <<>> /\ all_means = <<>>
    /\ data_list = <<>> /\ labels_list = <<>> /\ colors_list = <<>>
    /\ ttest = <<>> /\ drawn = "none" /\ pc = "idle"

ReadInit ==
    /\ lines \in ReadFiles
    /\ pos = 0
    /\ data_lines = <<>>
    /\ metadata = EmptyMetadata
    /\ ret = NoReturn
    /\ rpc = "loop"
    /\ SumIdle

ReadState == [data_lines |-> data_lines, metadata |-> metadata]

\* the loop body's effect on data_lines and metadata, whatever the branch
Consume ==
    /\ pos' = pos + 1
    /\ LET st == ReadStep(ReadState, lines[pos + 1])
       IN  data_lines' = st.data_lines /\ metadata' = st.metadata
    /\ UNCHANGED <<lines, ret, rpc, svars>>

\* if not line or line.startswith('#'): continue
SkipLine ==
    /\ rpc = "loop" /\ pos < Len(lines)
    /\ LineKind(lines[pos + 1]) = "skip"
    /\ Consume

\* if line.startswith('@'): ...; continue
AnnotationLine ==
    /\ rpc = "loop" /\ pos < Len(lines)
    /\ LineKind(lines[pos + 1]) = "annotation"
    /\ Consume

\* values = [float(x) for x in line.split()]; data_lines.append(values)
DataLine ==
    /\ rpc = "loop" /\ pos < Len(lines)
    /\ LineKind(lines[pos + 1]) = "data"
    /\ Consume

\* except ValueError: continue
BadLine ==
    /\ rpc = "loop" /\ pos < Len(lines)
    /\ LineKind(lines[pos + 1]) = "bad"
    /\ Consume

\* return np.array(data_lines), metadata
ReadReturn ==
    /\ rpc = "loop"
    /\ pos = Len(lines)
    /\ \E r \in NpArray(data_lines) :
          /\ ret' = r
          /\ rpc' = IF r.kind = "ndarray" THEN "done" ELSE "raised"
    /\ UNCHANGED <<lines, pos, data_lines, metadata, svars>>

ReadNext == SkipLine \/ AnnotationLine \/ DataLine \/ BadLine \/ ReadReturn

SpecRead == ReadInit /\ [][ReadNext]_vars

-----------------------------------------------------------------------------
(* plot_with_stats and create_box_plots *)

LABELS == [apo |-> "Apo", test |-> "Berberine", standard |-> "Acarbose"]
COLORS == [apo |-> "#2E86AB", test |-> "#A23B72", standard |-> "#F18F01"]

KeySet == {"apo", "test", "standard"}

\* the mappings the callers pass: files['rmsd'] (and rmsf, rg, sasa, and those
\* of create_summary_statistics once 'factor' is popped), and files['hbonds']
Mappings == {<<"apo", "test", "standard">>, <<"test", "standard">>}

\* the convert_factor values the callers pass
Factors == {1, 10}

\* read_xvg(filepath): the outcomes of the whole call on a file's lines
read_xvg(content) ==
    NpArray(ReadLoop([data_lines |-> <<>>, metadata |-> EmptyMetadata], content).data_lines)

\* the exception the loop body raises on what read_xvg gave, or "none"
BodyError(arr) ==
    CASE arr.kind = "ValueError" -> "ValueError"     \* raised inside read_xvg
      [] arr.ndim # 2 -> "IndexError"                \* data[:, 0] on a 1-D array
      [] Len(arr.rows[1]) < 2 -> "IndexError"        \* data[:, 1], one column
      [] OTHER -> "none"

\* data[:, c]
Column(arr, c) == [j \in 1..Len(arr.rows) |-> arr.rows[j][c + 1]]

\* a summarizer that forgets the unit conversion (data[:, 1])
Scale_none(col, factor) == col

\* data[:, 1] * convert_factor
Scale(col, factor) == [j \in 1..Len(col) |-> col[j] * factor]

\* a window that starts at the ceiling of the half (y[(len(y)+1)//2:])
EqWindow_ceil(y) == SubSeq(y, ((Len(y) + 1) \div 2) + 1, Len(y))

\* y[len(y)//2:]
EqWindow(y) == SubSeq(y, (Len(y) \div 2) + 1, Len(y))

RECURSIVE Sum(_)
Sum(w) == IF w = <<>> THEN 0 ELSE w[1] + Sum(Tail(w))

\* np.mean, as the fraction it divides out
Mean(w) == [num |-> Sum(w), den |-> Len(w)]

\* a test of the last series against the first (data_list[-1], data_list[0])
TTestArgs_last(dl) == [a |-> dl[Len(dl)], b |-> dl[1]]

\* stats.ttest_ind(data_list[1], data_list[0])
TTestArgs(dl) == [a |-> dl[2], b |-> dl[1]]

(* The files on disk: a header and n rows "i  a*i+b", written in decimal, for
   two series shapes; the file of the end-to-end example; a one-column file;
   a file whose rows differ in length. *)
RECURSIVE ToChars(_)
ToChars(n) ==
    IF n < 10 THEN <<Digits[n + 1]>>
    ELSE ToChars(n \div 10) \o <<Digits[(n % 10) + 1]>>

SeriesLine(i, a, b) == ToChars(i) \o <<" ">> \o ToChars(a * i + b)

SeriesRows(n, a, b) == [i \in 1..n |-> SeriesLine(i - 1, a, b)]

Header == <<L_icomment, L_ylabel>>

ExampleFile == SeriesRows(10, 2, 0)

OneColumnFile == <<<<"4">>, <<"5">>>>

RaggedFile == <<L_row12, L_row3>>

Shapes == {<<2, 0>>, <<1, 5>>}

SumFiles ==
    {Header \o SeriesRows(n, sh[1], sh[2]) : n \in 0..MaxRows, sh \in Shapes}
        \cup {ExampleFile, OneColumnFile, RaggedFile}

NoFile == [exists |-> FALSE, content |-> <<>>]

ReadIdle ==
    /\ lines = <<>> /\ pos = 0 /\ data_lines = <<>> /\ metadata = EmptyMetadata
    /\ ret = NoReturn /\ rpc = "idle"

SumInit ==
    /\ files_dict \in Mappings
    /\ fs \in [KeySet -> {NoFile} \cup {[exists |-> TRUE, content |-> f] : f \in SumFiles}]
    /\ \A key \in KeySet : (\A j \in 1..Len(files_dict) : files_dict[j] # key) => fs[key] = NoFile
    /\ convert_factor \in Factors
    /\ fn \in {"plot_with_stats", "create_box_plots"}
    /\ time_ns \in BOOLEAN
    /\ (fn = "create_box_plots" => time_ns)
    /\ k = 0 /\ opened = <<>> /\ all_means = <<>>
    /\ data_list = <<>> /\ labels_list = <<>> /\ colors_list = <<>>
    /\ ttest = <<>> /\ drawn = "none" /\ pc = "loop"
    /\ ReadIdle

InLoop(f) == fn = f /\ pc = "loop" /\ k < Len(files_dict)

\* plot_with_stats: "if filepath.exists()" is false
PlotSkip ==
    /\ InLoop("plot_with_stats")
    /\ ~fs[files_dict[k + 1]].exists
    /\ k' = k + 1
    /\ UNCHANGED <<rvars, fs, files_dict, convert_factor, time_ns, fn, opened,
                   all_means, data_list, labels_list, colors_list, ttest, drawn, pc>>

\* plot_with_stats: the loop body to its end (x = data[:, 0], scaled or not, is
\* only drawn: reading it is part of BodyError, its values are not kept)
PlotSeries ==
    /\ InLoop("plot_with_stats")
    /\ fs[files_dict[k + 1]].exists
    /\ \E data \in read_xvg(fs[files_dict[k + 1]].content) :
          /\ BodyError(data) = "none"
          /\ LET y == Scale(Column(data, 1), convert_factor)
                 mean_y == Mean(EqWindow(y))
             IN  all_means' = Append(all_means,
                                     [label |-> LABELS[files_dict[k + 1]], mean |-> mean_y])
    /\ opened' = Append(opened, files_dict[k + 1])
    /\ k' = k + 1
    /\ UNCHANGED <<rvars, fs, files_dict, convert_factor, time_ns, fn,
                   data_list, labels_list, colors_list, ttest, drawn, pc>>

\* plot_with_stats: the loop body raises
PlotRaise ==
    /\ InLoop("plot_with_stats")
    /\ fs[files_dict[k + 1]].exists
    /\ \E data \in read_xvg(fs[files_dict[k + 1]].content) :
          /\ BodyError(data) # "none"
          /\ pc' = BodyError(data)
    /\ opened' = Append(opened, files_dict[k + 1])
    /\ UNCHANGED <<rvars, fs, files_dict, convert_factor, time_ns, fn, k,
                   all_means, data_list, labels_list, colors_list, ttest, drawn>>

\* plot_with_stats: after the loop, the text box "if all_means"
PlotFinish ==
    /\ fn = "plot_with_stats" /\ pc = "loop" /\ k = Len(files_dict)
    /\ drawn' = IF all_means # <<>> THEN "textbox" ELSE "none"
    /\ pc' = "done"
    /\ UNCHANGED <<rvars, fs, files_dict, convert_factor, time_ns, fn, k, opened,
                   all_means, data_list, labels_list, colors_list, ttest>>

\* create_box_plots: "if filepath.exists()" is false
BoxSkip ==
    /\ InLoop("create_box_plots")
    /\ ~fs[files_dict[k + 1]].exists
    /\ k' = k + 1
    /\ UNCHANGED <<rvars, fs, files_dict, convert_factor, time_ns, fn, opened,
                   all_means, data_list, labels_list, colors_list, ttest, drawn, pc>>

\* create_box_plots: the loop body to its end
BoxSeries ==
    /\ InLoop("create_box_plots")
    /\ fs[files_dict[k + 1]].exists
    /\ \E data \in read_xvg(fs[files_dict[k + 1]].content) :
          /\ BodyError(data) = "none"
          /\ LET values == Scale(Column(data, 1), convert_factor)
                 eq_values == EqWindow(values)
             IN  data_list' = Append(data_list, eq_values)
    /\ labels_list' = Append(labels_list, LABELS[files_dict[k + 1]])
    /\ colors_list' = Append(colors_list, COLORS[files_dict[k + 1]])
    /\ opened' = Append(opened, files_dict[k + 1])
    /\ k' = k + 1
    /\ UNCHANGED <<rvars, fs, files_dict, convert_factor, time_ns, fn,
                   all_means, ttest, drawn, pc>>

\* create_box_plots: the loop body raises
BoxRaise ==
    /\ InLoop("create_box_plots")
    /\ fs[files_dict[k + 1]].exists
    /\ \E data \in read_xvg(fs[files_dict[k + 1]].content) :
          /\ BodyError(data) # "none"
          /\ pc' = BodyError(data)
    /\ opened' = Append(opened, files_dict[k + 1])
    /\ UNCHANGED <<rvars, fs, files_dict, convert_factor, time_ns, fn, k,
                   all_means, data_list, labels_list, colors_list, ttest, drawn>>

\* create_box_plots: after the loop, "if data_list" and the t-test inside it
BoxFinish ==
    /\ fn = "create_box_plots" /\ pc = "loop" /\ k = Len(files_dict)
    /\ drawn' = IF data_list # <<>> THEN "boxplot" ELSE "none"
    /\ ttest' = IF data_list # <<>> /\ Len(data_list) >= 2
                THEN <<TTestArgs(data_list)>> ELSE <<>>
    /\ pc' = "done"
    /\ UNCHANGED <<rvars, fs, files_dict, convert_factor, time_ns, fn, k, opened,
                   all_means, data_list, labels_list, colors_list>>

Next ==
    \/ PlotSkip \/ PlotSeries \/ PlotRaise \/ PlotFinish
    \/ BoxSkip \/ BoxSeries \/ BoxRaise \/ BoxFinish

Spec == SumInit /\ [][Next]_vars

-----------------------------------------------------------------------------
(* Claims about read_xvg, checked under SpecRead *)

\* a line that, stripped, is non-empty, is no comment, no annotation, and
\* whose whitespace-separated tokens all parse as numbers
NumericLine(raw) ==
    LET s == Strip(raw)
    IN  /\ s # <<>>
        /\ s[1] # "#"
        /\ s[1] # "@"
        /\ \A j \in 1..Len(Split(s)) : FloatOk(Split(s)[j])

RowOf(raw) == [j \in 1..Len(Split(raw)) |-> Float(Split(raw)[j])]

NumericLinesOf(ls) == SelectSeq(ls, NumericLine)

\* one row per numeric line, in the order of the lines
ExpectedRows(ls) ==
    [m \in 1..Len(NumericLinesOf(ls)) |-> RowOf(NumericLinesOf(ls)[m])]

\* every numeric line has the same number of tokens
FixedWidth(ls) ==
    \A a, b \in 1..Len(NumericLinesOf(ls)) :
        Len(Split(NumericLinesOf(ls)[a])) = Len(Split(NumericLinesOf(ls)[b]))

Returned == rpc \in {"done", "raised"}

(* C1, as stated: for every file, read_xvg returns a matrix with exactly one
   row per numeric line, in the order of those lines; no other line adds a
   row or stops the parse. *)
C1_Original ==
    Returned => /\ ret.kind = "ndarray"
                /\ pos = Len(lines)
                /\ ret.rows = ExpectedRows(lines)

(* C1, amended: while the loop runs, data_lines holds exactly one row per
   numeric line consumed so far, in order, whatever the other lines are; and
   when all numeric lines of the file have the same number of tokens,
   read_xvg returns the matrix of exactly those rows, having consumed every
   line. *)
C1_RowsOfNumericLines ==
    /\ data_lines = ExpectedRows(SubSeq(lines, 1, pos))
    /\ (Returned /\ FixedWidth(lines)) =>
          /\ ret.kind = "ndarray"
          /\ pos = Len(lines)
          /\ ret.rows = ExpectedRows(lines)

\* a file with a non-numeric row between two different numeric rows, returned
C1_Witness ==
    /\ rpc = "done"
    /\ Len(lines) = 3
    /\ NumericLine(lines[1]) /\ LineKind(lines[2]) = "bad" /\ NumericLine(lines[3])
    /\ Len(ret.rows) = 2
    /\ ret.rows[1] # ret.rows[2]

QuoteCount(s) == Cardinality({j \in 1..Len(s) : s[j] = "\""})

\* the text of an annotation line before its first double quote, in lower case
KeyText(s) == Lower(SplitOn(s, "\"")[1])

CarriesKey(s, field) ==
    CASE field = "title" -> Contains(KeyText(s), W_title)
      [] field = "xlabel" -> Contains(KeyText(s), W_xaxis) /\ Contains(KeyText(s), W_label)
      [] field = "ylabel" -> Contains(KeyText(s), W_yaxis) /\ Contains(KeyText(s), W_label)

Fields == {"title", "xlabel", "ylabel"}

\* an annotation line for a recognised key with an opening quote and no closing one
UnclosedAnnotation(raw) ==
    /\ StartsWith(Strip(raw), "@")
    /\ \E f \in Fields : CarriesKey(Strip(raw), f)
    /\ QuoteCount(Strip(raw)) = 1

NotUnclosed(raw) == ~UnclosedAnnotation(raw)

(* C3: an annotation line for a recognised key whose quoted value has an
   opening double quote and no closing one is discarded: read_xvg ends with
   the metadata and the rows it would have without that line. *)
C3_UnclosedQuoteDiscarded ==
    Returned =>
        /\ metadata = ReadLoop([data_lines |-> <<>>, metadata |-> EmptyMetadata],
                               SelectSeq(lines, NotUnclosed)).metadata
        /\ data_lines = ReadLoop([data_lines |-> <<>>, metadata |-> EmptyMetadata],
                                 SelectSeq(lines, NotUnclosed)).data_lines

\* the last line that carries the field's own key with a well-formed quoted value
ExpectedField(ls, field) ==
    LET at == {j \in 1..Len(ls) : /\ StartsWith(Strip(ls[j]), "@")
                                  /\ CarriesKey(Strip(ls[j]), field)
                                  /\ QuoteCount(Strip(ls[j])) >= 2}
    IN  IF at = {} THEN <<>>
        ELSE LET last == CHOOSE j \in at : \A m \in at : j >= m
             IN  SplitOn(Strip(ls[last]), "\"")[2]

(* C4: after read_xvg, each metadata field is the first double-quoted
   substring of the last annotation line carrying that field's own key, and
   empty when there is none; a line for one key never changes another key's
   field.  Stated on the files whose annotation lines have no unclosed quote
   (that case is C3's). *)
C4_FieldsFollowOwnKey ==
    (Returned /\ \A j \in 1..Len(lines) : NotUnclosed(lines[j])) =>
        \A f \in Fields : metadata[f] = ExpectedField(lines, f)

-----------------------------------------------------------------------------
(* Claims about plot_with_stats and create_box_plots, checked under Spec *)

Finished == pc \notin {"idle", "loop"}

Exists(key) == fs[key].exists

\* the conditions whose file exists, in the order of the caller's mapping
Present == SelectSeq(files_dict, Exists)

\* the numeric rows of each file, and of a condition's file
RowsOfFile ==
    [f \in SumFiles \cup {<<>>} |->
        ReadLoop([data_lines |-> <<>>, metadata |-> EmptyMetadata], f).data_lines]

RowsOf(key) == RowsOfFile[fs[key].content]

ZeroRows(key) == RowsOf(key) = <<>>

\* a table of at least one row, all rows of one width, at least two columns
WellFormed(key) ==
    /\ RowsOf(key) # <<>>
    /\ \A j \in 1..Len(RowsOf(key)) : Len(RowsOf(key)[j]) = Len(RowsOf(key)[1])
    /\ Len(RowsOf(key)[1]) >= 2

\* every file that exists is a table, possibly one of zero rows
TablesOnly == \A j \in 1..Len(Present) : ZeroRows(Present[j]) \/ WellFormed(Present[j])

\* the scaled y-values of a condition's series
YOf(key) == [j \in 1..Len(RowsOf(key)) |-> RowsOf(key)[j][2] * convert_factor]

\* the y-values at (0-based) indices floor(N/2) .. N-1, in their order
TrailingHalf(y) ==
    [j \in 1..(Len(y) - (Len(y) \div 2)) |-> y[(Len(y) \div 2) + j]]

\* the labels of what the running function has aggregated, in order
AggregatedLabels ==
    IF fn = "plot_with_stats"
    THEN [j \in 1..Len(all_means) |-> all_means[j].label]
    ELSE labels_list

NonEmptyPresent == SelectSeq(Present, WellFormed)

(* C2: a condition whose file exists but yields zero numeric rows is
   excluded from all aggregation (no trailing mean, no observation set, no
   part in the significance test) and the call completes without error. *)
C2_EmptySeriesExcluded ==
    (Finished /\ TablesOnly /\ \E j \in 1..Len(Present) : ZeroRows(Present[j])) =>
        /\ pc = "done"
        /\ AggregatedLabels = [j \in 1..Len(NonEmptyPresent) |-> LABELS[NonEmptyPresent[j]]]
        /\ fn = "create_box_plots" =>
              /\ Len(data_list) = Len(NonEmptyPresent)
              /\ (ttest # <<>>) <=> (Len(NonEmptyPresent) >= 2)

(* C5: both functions read only the files that exist and produce exactly
   one trailing mean (one observation set, label and colour) per condition
   whose file exists, in the order of the mapping, nothing for an absent
   condition; with every file absent the result is empty and no error is
   raised.  Stated on file systems whose files are tables. *)
C5_OnePerExistingFile ==
    (Finished /\ TablesOnly) =>
        /\ pc = "done"
        /\ opened = Present
        /\ AggregatedLabels = [j \in 1..Len(Present) |-> LABELS[Present[j]]]
        /\ fn = "create_box_plots" =>
              /\ Len(data_list) = Len(Present)
              /\ colors_list = [j \in 1..Len(Present) |-> COLORS[Present[j]]]

(* C6: create_box_plots runs the significance test exactly when at least two
   series are present; with none it computes nothing, with one it aggregates
   that series and runs no test, and in neither case raises.  Stated on file
   systems whose files are tables. *)
C6_TestIffTwoPresent ==
    (Finished /\ fn = "create_box_plots" /\ TablesOnly) =>
        /\ (ttest # <<>>) <=> (Len(Present) >= 2)
        /\ Len(Present) = 0 => (pc = "done" /\ data_list = <<>> /\ drawn = "none")
        /\ Len(Present) = 1 => (pc = "done" /\ Len(data_list) = 1 /\ ttest = <<>>)

(* C7: whenever create_box_plots runs the significance test, its two samples
   are the equilibrated windows of the first two present series in the
   mapping's order (the second of them is the first argument), and of no
   other series. *)
C7_FirstTwoPresent ==
    (fn = "create_box_plots" /\ ttest # <<>>) =>
        /\ Len(ttest) = 1
        /\ Len(Present) >= 2
        /\ ttest[1].a = TrailingHalf(YOf(Present[2]))
        /\ ttest[1].b = TrailingHalf(YOf(Present[1]))

\* the test was run with the first condition absent and with a third series
\* present that differs from both samples
C7_Witness ==
    \/ /\ fn = "create_box_plots" /\ ttest # <<>>
       /\ Len(files_dict) = 3 /\ Len(Present) = 2 /\ ~Exists(files_dict[1])
       /\ ttest[1].a # ttest[1].b
       /\ convert_factor = 10
    \/ /\ fn = "create_box_plots" /\ ttest # <<>>
       /\ Len(Present) = 3
       /\ data_list[3] # ttest[1].a /\ data_list[3] # ttest[1].b
       /\ convert_factor = 1

(* C8: for every series of length N >= 1 the equilibrated window behind the
   trailing mean of plot_with_stats and the observation set of
   create_box_plots is the same: the y-values at indices floor(N/2) .. N-1
   in their order, of length N - floor(N/2) >= 1. *)
C8_EquilibratedWindow ==
    /\ \A j \in 1..Len(all_means) :
          LET y == YOf(opened[j])
          IN  /\ Len(y) >= 1
              /\ all_means[j].mean = Mean(TrailingHalf(y))
              /\ all_means[j].mean.den = Len(y) - (Len(y) \div 2)
              /\ all_means[j].mean.den >= 1
    /\ \A j \in 1..Len(data_list) :
          LET y == YOf(opened[j])
          IN  /\ Len(y) >= 1
              /\ data_list[j] = TrailingHalf(y)
              /\ Len(data_list[j]) = Len(y) - (Len(y) \div 2)
              /\ Len(data_list[j]) >= 1

\* a one-sample series and a three-sample series, each windowed, by either function
C8_Witness ==
    /\ pc = "done"
    /\ Len(opened) >= 2
    /\ Len(RowsOf(opened[1])) = 1 /\ Len(RowsOf(opened[2])) = 3
    /\ \/ (fn = "plot_with_stats" /\ all_means[1].mean.den = 1 /\ all_means[2].mean.den = 2)
       \/ (fn = "create_box_plots" /\ Len(data_list[1]) = 1 /\ Len(data_list[2]) = 2)

\* the example's series: with scale factor 10, in plot_with_stats
IsExample(j) ==
    /\ fn = "plot_with_stats" /\ convert_factor = 10
    /\ fs[opened[j]].content = ExampleFile

ExampleShape ==
    \A data \in read_xvg(ExampleFile) :
        /\ data.kind = "ndarray" /\ data.ndim = 2
        /\ Len(data.rows) = 10
        /\ \A i \in 1..10 : data.rows[i] = <<i - 1, 2 * (i - 1)>>

(* C9, as stated: for the file of rows (i, 2i), i = 0..9, and scale factor
   10, read_xvg yields a matrix of shape (10, 2), the window is rows 5..9,
   and the trailing mean of plot_with_stats is exactly 70.0. *)
C9_Original ==
    \A j \in 1..Len(all_means) : IsExample(j) =>
        /\ ExampleShape
        /\ all_means[j].mean.den = 5
        /\ all_means[j].mean.num = 70 * all_means[j].mean.den

(* C9, amended: for that file and scale factor the matrix has shape (10, 2),
   the window is rows 5..9 (scaled values 100, 120, 140, 160, 180), and the
   trailing mean of plot_with_stats is exactly 140.0. *)
C9_ExampleMean140 ==
    \A j \in 1..Len(all_means) : IsExample(j) =>
        /\ ExampleShape
        /\ TrailingHalf(YOf(opened[j])) = <<100, 120, 140, 160, 180>>
        /\ all_means[j].mean = Mean(<<100, 120, 140, 160, 180>>)
        /\ all_means[j].mean.den = 5
        /\ all_means[j].mean.num = 140 * all_means[j].mean.den

\* plot_with_stats finished on the example's file with scale factor 10
C9_Witness ==
    /\ pc = "done"
    /\ \E j \in 1..Len(all_means) : IsExample(j) /\ all_means[j].mean.num = 700

(* C10: on a mapping with apo, test and standard, whenever create_box_plots
   runs the significance test it is between the 'test' series and the
   'standard' series.  Stated where both of these series are present. *)
C10_TestVersusStandard ==
    (/\ fn = "create_box_plots" /\ ttest # <<>> /\ Len(files_dict) = 3
     /\ Exists("test") /\ Exists("standard")) =>
        {ttest[1].a, ttest[1].b} =
            {TrailingHalf(YOf("test")), TrailingHalf(YOf("standard"))}

=============================================================================
